---- MODULE Spec2Model ----
(***************************************************************************)
(* Model of package env (src/env.go): binding of process environment       *)
(* variables to the fields of a struct, or to a single variable, with      *)
(* defaults and per-field error reporting.                                 *)
(*                                                                         *)
(* Strings are sequences of one-character strings.  A caller either        *)
(* declares a struct and loads it with LoadEnvVars/F/T/TF, or declares a   *)
(* variable and loads it with LoadEnvVar/LoadEnvVarT.  The load is made    *)
(* once, at startup, from the environment the process was given.           *)
(***************************************************************************)
EXTENDS Integers, Sequences, FiniteSets, TLC

\* ------------------------------------------------------------------ bounds
\* longest environment value, default value and variable name enumerated
MaxLen == 2
\* longest `env` struct tag enumerated
MaxTagLen == 3
\* number of fields of the struct
NumFields == 2

\* characters the enumerated strings are made of: a digit and the separator.
\* Over them "1" and "11" parse as int and float64, "1" alone as bool, and a
\* string holding a comma parses only as a string or against a time layout
\* with the same literal text.
Chars == {"1", ","}

RECURSIVE StrUpTo(_)
StrUpTo(n) ==
    IF n = 0 THEN {<<>>}
    ELSE LET shorter == StrUpTo(n - 1)
         IN shorter \cup {Append(s, c) : s \in shorter, c \in Chars}

Str == StrUpTo(MaxLen)
Tags == StrUpTo(MaxTagLen)
\* the time layouts enumerated: none, the month element, literal text
Layouts == {<<>>, <<"1">>, <<",">>}

\* ------------------------------------------------------- program constants
SEP == ","
ENV_VAR_NOT_FOUND == 1
ENV_VAR_PARSING_ERROR == 2
DEFAULT_VALUE_NOT_SPECIFIED == 4
DEFAULT_VALUE_PARSING_ERROR == 8
NIL == 0

\* the kinds of target the switch of validateAndSet tells apart; "other"
\* stands for every remaining kind (int64, slice, nested struct, ...)
Kinds == {"string", "int", "float64", "bool", "time", "other"}

\* time.Time as (year, month, day); the clock fields stay 0 for the layouts
\* modelled
ZeroTime == [year |-> 1, month |-> 1, day |-> 1]

\* a value a variable of the kind may hold that is not its zero value
SampleValue(kind) ==
    CASE kind = "string" -> <<"t">>
      [] kind = "int" -> 7
      [] kind = "float64" -> 7
      [] kind = "bool" -> TRUE
      [] kind = "time" -> [year |-> 2017, month |-> 11, day |-> 1]
      [] OTHER -> "opaque"

\* the zero value of a Go variable of the kind
ZeroValue(kind) ==
    CASE kind = "string" -> <<>>
      [] kind = "int" -> 0
      [] kind = "float64" -> 0
      [] kind = "bool" -> FALSE
      [] kind = "time" -> ZeroTime
      [] OTHER -> "opaque"

\* ---------------------------------------------------------------- parsing
Digits == <<"0", "1", "2", "3", "4", "5", "6", "7", "8", "9">>
IsDigit(c) == \E d \in 1..10 : Digits[d] = c
DigitVal(c) == (CHOOSE d \in 1..10 : Digits[d] = c) - 1

AllDigits(s) == Len(s) > 0 /\ \A i \in 1..Len(s) : IsDigit(s[i])

RECURSIVE Decimal(_)
Decimal(s) ==
    IF Len(s) = 0 THEN 0
    ELSE 10 * Decimal(SubSeq(s, 1, Len(s) - 1)) + DigitVal(s[Len(s)])

Tail1(s) == SubSeq(s, 2, Len(s))

\* strconv.Atoi: optional sign, then one or more decimal digits
Atoi(s) ==
    LET signed == Len(s) > 0 /\ s[1] \in {"+", "-"}
        body == IF signed THEN Tail1(s) ELSE s
    IN IF AllDigits(body)
       THEN [err |-> FALSE,
             val |-> IF signed /\ s[1] = "-" THEN 0 - Decimal(body) ELSE Decimal(body)]
       ELSE [err |-> TRUE, val |-> 0]

\* strconv.ParseFloat(s, 64) on the strings made of a sign and digits: the
\* value is the integer written
ParseFloat(s) ==
    LET signed == Len(s) > 0 /\ s[1] \in {"+", "-"}
        body == IF signed THEN Tail1(s) ELSE s
    IN IF AllDigits(body)
       THEN [err |-> FALSE,
             val |-> IF signed /\ s[1] = "-" THEN 0 - Decimal(body) ELSE Decimal(body)]
       ELSE [err |-> TRUE, val |-> 0]

TrueTokens == {<<"1">>, <<"t">>, <<"T">>, <<"T", "R", "U", "E">>,
               <<"t", "r", "u", "e">>, <<"T", "r", "u", "e">>}
FalseTokens == {<<"0">>, <<"f">>, <<"F">>, <<"F", "A", "L", "S", "E">>,
                <<"f", "a", "l", "s", "e">>, <<"F", "a", "l", "s", "e">>}

\* strconv.ParseBool
ParseBool(s) ==
    IF s \in TrueTokens THEN [err |-> FALSE, val |-> TRUE]
    ELSE IF s \in FalseTokens THEN [err |-> FALSE, val |-> FALSE]
    ELSE [err |-> TRUE, val |-> FALSE]

\* getnum(s, false) of package time: one or two leading digits
Getnum(s) ==
    IF Len(s) = 0 \/ ~IsDigit(s[1]) THEN [err |-> TRUE, n |-> 0, rest |-> s]
    ELSE IF Len(s) < 2 \/ ~IsDigit(s[2])
         THEN [err |-> FALSE, n |-> DigitVal(s[1]), rest |-> Tail1(s)]
         ELSE [err |-> FALSE, n |-> 10 * DigitVal(s[1]) + DigitVal(s[2]),
               rest |-> SubSeq(s, 3, Len(s))]

\* time.Parse(layout, value) for layouts over Chars: "1" is the month
\* element (stdNumMonth), every other character is literal text; month is
\* the month parsed so far, -1 when none
RECURSIVE ParseTime(_, _, _)
ParseTime(layout, value, month) ==
    IF Len(layout) = 0
    THEN IF Len(value) # 0 THEN [err |-> TRUE, val |-> ZeroTime]
         ELSE [err |-> FALSE,
               val |-> [year |-> 0, month |-> IF month < 0 THEN 1 ELSE month, day |-> 1]]
    ELSE IF layout[1] = "1"
    THEN LET g == Getnum(value)
         IN IF g.err \/ g.n <= 0 \/ g.n > 12 THEN [err |-> TRUE, val |-> ZeroTime]
            ELSE ParseTime(Tail1(layout), g.rest, g.n)
    ELSE IF Len(value) = 0 \/ value[1] # layout[1] THEN [err |-> TRUE, val |-> ZeroTime]
    ELSE ParseTime(Tail1(layout), Tail1(value), month)

TimeParse(layout, value) == ParseTime(layout, value, -1)


\* ------------------------------------------------------------------ state
VARIABLES
    environ,   \* the process environment: variable name -> value, "" when unset
    mode,      \* "struct": the caller's target is a struct; "var": one variable
    ftype,     \* the declared fields: kind, exported, `env` and `timeLayout` tags
    vals,      \* the current value of each field
    call,      \* the last call and its arguments, with the values before it
    ret        \* the error the last load returned

vars == <<environ, mode, ftype, vals, call, ret>>

\* the name of the i-th struct field: F1, F11, F111, ...
FieldName(i) == <<"F">> \o [j \in 1..i |-> "1"]

\* the variables the environment may hold
EnvNames == {<<"1">>, FieldName(1)}

\* the names a single-variable load looks up: the above and one never set
LookupNames == EnvNames \cup {<<"1", "1">>}

\* os.Getenv: the value, "" for a variable that is not set
Getenv(name) == IF name \in DOMAIN environ THEN environ[name] ELSE <<>>

\* FieldError{}
ZeroFieldError == [FieldName |-> <<>>, ErrorCode |-> NIL, ErrorMsg |-> <<>>]

\* what the body of AddError does to its receiver e
AddErrorBody(e, errorCode, errorMsg) ==
    [e EXCEPT !.ErrorCode = @ + errorCode, !.ErrorMsg = <<errorMsg>> \o @]

\* AddError with a pointer receiver: the caller's fe is updated
AddErrorByPointer(e, errorCode, errorMsg) == AddErrorBody(e, errorCode, errorMsg)

\* fe.AddError(code, msg) as the caller sees fe afterwards: the receiver is a
\* value (func (e FieldError) AddError), so the body updates a copy of fe
\* that is dropped on return
AddError(e, errorCode, errorMsg) ==
    LET copy == AddErrorBody(e, errorCode, errorMsg)
    IN e

\* the set functions: [err, val] is the error returned and the value the
\* field holds afterwards; fd.cur is the value it holds before
setStrField(fd, valueToSet) == [err |-> FALSE, val |-> valueToSet]

\* setIntField without the call of SetInt
setIntFieldNoStore(fd, valueToSet) ==
    LET p == Atoi(valueToSet)
    IN [err |-> p.err, val |-> fd.cur]

\* setIntField storing Atoi's result before looking at its error
setIntFieldEager(fd, valueToSet) ==
    LET p == Atoi(valueToSet)
    IN [err |-> p.err, val |-> p.val]

setIntField(fd, valueToSet) ==
    LET p == Atoi(valueToSet)
    IN IF p.err THEN [err |-> TRUE, val |-> fd.cur] ELSE [err |-> FALSE, val |-> p.val]

setFloatField(fd, valueToSet) ==
    LET p == ParseFloat(valueToSet)
    IN IF p.err THEN [err |-> TRUE, val |-> fd.cur] ELSE [err |-> FALSE, val |-> p.val]

setBoolField(fd, valueToSet) ==
    LET p == ParseBool(valueToSet)
    IN IF p.err THEN [err |-> TRUE, val |-> fd.cur] ELSE [err |-> FALSE, val |-> p.val]

setTimeField(fd, valueToSet) ==
    LET p == TimeParse(fd.timeLayout, valueToSet)
    IN IF p.err THEN [err |-> TRUE, val |-> fd.cur] ELSE [err |-> FALSE, val |-> p.val]

\* the call setFunc(_fieldData, valueToSet) of a set function passed as a
\* value, which is modelled by its name
callSetFunc(setFunc, fd, valueToSet) ==
    CASE setFunc = "setStrField" -> setStrField(fd, valueToSet)
      [] setFunc = "setIntField" -> setIntField(fd, valueToSet)
      [] setFunc = "setFloatField" -> setFloatField(fd, valueToSet)
      [] setFunc = "setBoolField" -> setBoolField(fd, valueToSet)
      [] setFunc = "setTimeField" -> setTimeField(fd, valueToSet)

\* setField: the environment value first, then the default; [val, fe] is the
\* field's value afterwards and the FieldError returned
setField(fd, setFunc) ==
    LET strVal == Getenv(fd.envVarName)
        fe == ZeroFieldError
        r1 == callSetFunc(setFunc, fd, strVal)
        fe1 == IF strVal # <<>>
               THEN AddError(fe, ENV_VAR_PARSING_ERROR, "Error parsing env variable")
               ELSE AddError(fe, ENV_VAR_NOT_FOUND, "Env Variable not found")
        fd1 == IF strVal # <<>> THEN [fd EXCEPT !.cur = r1.val] ELSE fd
        r2 == callSetFunc(setFunc, fd1, fd.defaultVal)
    IN IF strVal # <<>> /\ ~r1.err THEN [val |-> r1.val, fe |-> fe]
       ELSE IF fd.defaultVal # <<>>
       THEN IF ~r2.err THEN [val |-> r2.val, fe |-> fe1]
            ELSE [val |-> r2.val,
                  fe |-> AddError(fe1, DEFAULT_VALUE_PARSING_ERROR,
                                  "Error while parsing the default value")]
       ELSE [val |-> fd1.cur,
             fe |-> AddError(fe1, DEFAULT_VALUE_NOT_SPECIFIED, "Default value not specified")]

\* validateAndSet without the CanSet test
validateAndSetNoCanSet(fd, withTime) ==
    LET setFunc == CASE fd.kind = "string" -> "setStrField"
                     [] fd.kind = "int" -> "setIntField"
                     [] fd.kind = "float64" -> "setFloatField"
                     [] fd.kind = "bool" -> "setBoolField"
                     [] withTime /\ fd.kind = "time" -> "setTimeField"
                     [] OTHER -> "none"
    IN IF setFunc # "none" THEN setField(fd, setFunc)
       ELSE [val |-> fd.cur, fe |-> ZeroFieldError]

\* validateAndSet with a default case that stores the string
validateAndSetDefaultCase(fd, withTime) ==
    LET setFunc == CASE fd.kind = "string" -> "setStrField"
                     [] fd.kind = "int" -> "setIntField"
                     [] fd.kind = "float64" -> "setFloatField"
                     [] fd.kind = "bool" -> "setBoolField"
                     [] withTime /\ fd.kind = "time" -> "setTimeField"
                     [] OTHER -> "setStrField"
    IN IF fd.canSet /\ setFunc # "none" THEN setField(fd, setFunc)
       ELSE [val |-> fd.cur, fe |-> ZeroFieldError]

\* validateAndSet: the switch on the field's kind picks the set function; a
\* field that cannot be set, or of any other kind, is left alone with no error
validateAndSet(fd, withTime) ==
    LET setFunc == CASE fd.kind = "string" -> "setStrField"
                     [] fd.kind = "int" -> "setIntField"
                     [] fd.kind = "float64" -> "setFloatField"
                     [] fd.kind = "bool" -> "setBoolField"
                     [] withTime /\ fd.kind = "time" -> "setTimeField"
                     [] OTHER -> "none"
    IN IF fd.canSet /\ setFunc # "none" THEN setField(fd, setFunc)
       ELSE [val |-> fd.cur, fe |-> ZeroFieldError]

\* strings.Index(s, SEP), 1-based; 0 when s holds no separator
RECURSIVE IndexSep(_, _)
IndexSep(s, i) ==
    IF i > Len(s) THEN 0 ELSE IF s[i] = SEP THEN i ELSE IndexSep(s, i + 1)

\* strings.Split(s, SEP) cut to its first two parts: every separator splits
SplitAll2(s) ==
    LET k == IndexSep(s, 1)
        rest == SubSeq(s, k + 1, Len(s))
        k2 == IndexSep(rest, 1)
    IN IF k = 0 THEN <<s>>
       ELSE <<SubSeq(s, 1, k - 1), IF k2 = 0 THEN rest ELSE SubSeq(rest, 1, k2 - 1)>>

\* strings.SplitN(s, SEP, 2)
SplitN2(s) ==
    LET k == IndexSep(s, 1)
    IN IF k = 0 THEN <<s>> ELSE <<SubSeq(s, 1, k - 1), SubSeq(s, k + 1, Len(s))>>

\* the fieldData loadEnvVars builds for field i (lines 116-130)
StructFieldData(i, cur, force, withTime) ==
    LET envVar == SplitN2(ftype[i].envTag)
        tagName == IF Len(envVar) >= 1 THEN envVar[1] ELSE <<>>
    IN [envVarName |-> IF tagName = <<>> /\ force THEN FieldName(i) ELSE tagName,
        defaultVal |-> IF Len(envVar) >= 2 THEN envVar[2] ELSE <<>>,
        timeLayout |-> IF withTime THEN ftype[i].layoutTag ELSE <<>>,
        kind |-> ftype[i].kind,
        canSet |-> ftype[i].exported,
        cur |-> cur]

\* the loop of loadEnvVars leaving at the first field that is bound to a
\* variable and ends with neither value parsed
RECURSIVE loadFieldsUntilFailure(_, _, _, _, _)
loadFieldsUntilFailure(i, vs, errs, force, withTime) ==
    IF i > Len(ftype) THEN [vals |-> vs, errs |-> errs]
    ELSE LET fd == StructFieldData(i, vs[i], force, withTime)
             r == validateAndSet(fd, withTime)
             supported == fd.kind \in {"string", "int", "float64", "bool"}
                          \/ (withTime /\ fd.kind = "time")
         IN IF fd.envVarName = <<>>
            THEN loadFieldsUntilFailure(i + 1, vs, errs, force, withTime)
            ELSE IF fd.canSet /\ supported /\ r.val = vs[i]
            THEN [vals |-> vs, errs |-> errs]
            ELSE loadFieldsUntilFailure(i + 1, [vs EXCEPT ![i] = r.val], errs,
                                        force, withTime)

\* the loop of loadEnvVars from field i on; vs and errs are the field values
\* and err.FieldErrors so far
RECURSIVE loadFields(_, _, _, _, _)
loadFields(i, vs, errs, force, withTime) ==
    IF i > Len(ftype) THEN [vals |-> vs, errs |-> errs]
    ELSE LET fd == StructFieldData(i, vs[i], force, withTime)
             r == validateAndSet(fd, withTime)
         IN IF fd.envVarName = <<>> THEN loadFields(i + 1, vs, errs, force, withTime)
            ELSE loadFields(i + 1, [vs EXCEPT ![i] = r.val],
                            IF r.fe # ZeroFieldError
                            THEN Append(errs, [r.fe EXCEPT !.FieldName = FieldName(i)])
                            ELSE errs,
                            force, withTime)

\* a returned error: nil, or the field errors it carries
NilError == [nil |-> TRUE, errs |-> <<>>]

NoArgs == [force |-> FALSE, withTime |-> FALSE, envVarName |-> <<>>,
           defaultVal |-> <<>>, timeLayout |-> <<>>]

\* loadEnvVars(structPtr, force, withTime)
loadEnvVars(op, force, withTime) ==
    LET r == IF mode = "struct" THEN loadFields(1, vals, <<>>, force, withTime)
             ELSE [vals |-> vals, errs |-> <<>>]
    IN /\ vals' = r.vals
       /\ ret' = IF r.errs # <<>> THEN [nil |-> FALSE, errs |-> r.errs] ELSE NilError
       /\ call' = [NoArgs EXCEPT !.force = force, !.withTime = withTime] @@
                  [op |-> op, pre |-> vals]
       /\ UNCHANGED <<environ, mode, ftype>>

\* the entry points; Startup: the caller loads once, after the environment
\* is in place
Startup == call.op = "Setenv"

LoadEnvVars ==
    /\ Startup
    /\ loadEnvVars("LoadEnvVars", FALSE, FALSE)

LoadEnvVarsF ==
    /\ Startup
    /\ loadEnvVars("LoadEnvVarsF", TRUE, FALSE)

LoadEnvVarsT ==
    /\ Startup
    /\ loadEnvVars("LoadEnvVarsT", FALSE, TRUE)

LoadEnvVarsTF ==
    /\ Startup
    /\ loadEnvVars("LoadEnvVarsTF", TRUE, TRUE)

\* loadEnvVar(ptr, envVarName, defaultVal, withTime, timeLayout), ptr being
\* the address of the caller's variable
loadEnvVar(op, envVarName, defaultVal, withTime, timeLayout) ==
    LET fd == [envVarName |-> envVarName, defaultVal |-> defaultVal,
               timeLayout |-> timeLayout, kind |-> ftype[1].kind,
               canSet |-> TRUE, cur |-> vals[1]]
        r == validateAndSet(fd, withTime)
    IN /\ vals' = <<r.val>>
       /\ ret' = IF r.fe # ZeroFieldError
                 THEN [nil |-> FALSE, errs |-> <<[r.fe EXCEPT !.FieldName = envVarName]>>]
                 ELSE NilError
       /\ call' = [op |-> op, pre |-> vals, force |-> FALSE, withTime |-> withTime,
                   envVarName |-> envVarName, defaultVal |-> defaultVal,
                   timeLayout |-> timeLayout]
       /\ UNCHANGED <<environ, mode, ftype>>

\* the single-variable entry points, called on the caller's variable
LoadEnvVar ==
    \E envVarName \in LookupNames, defaultVal \in Str :
        /\ Startup
        /\ mode = "var"
        /\ loadEnvVar("LoadEnvVar", envVarName, defaultVal, FALSE, <<>>)

LoadEnvVarT ==
    \E envVarName \in LookupNames, defaultVal \in Str, timeLayout \in Layouts :
        /\ Startup
        /\ mode = "var"
        /\ loadEnvVar("LoadEnvVarT", envVarName, defaultVal, TRUE, timeLayout)

\* the process environment before the load: os.Setenv(name, value)
Setenv ==
    \E name \in EnvNames, value \in Str :
        /\ call.op = "init"
        /\ environ' = [environ EXCEPT ![name] = value]
        /\ call' = NoArgs @@ [op |-> "Setenv", pre |-> vals]
        /\ ret' = NilError
        /\ UNCHANGED <<mode, ftype, vals>>

\* ------------------------------------------------------- declared targets
\* a struct field: its kind, whether it is exported, its tags; only a
\* time.Time field carries a timeLayout tag
FieldDecls ==
    {[kind |-> k, exported |-> e, envTag |-> t, layoutTag |-> l] :
        k \in Kinds \ {"time"}, e \in BOOLEAN, t \in Tags, l \in {<<>>}}
    \cup
    {[kind |-> "time", exported |-> e, envTag |-> t, layoutTag |-> l] :
        e \in BOOLEAN, t \in Tags, l \in Layouts}

\* the fields declared next to the one that varies: an int whose variable is
\* never set and has no default, and an unexported string
Fillers ==
    {[kind |-> "int", exported |-> TRUE, envTag |-> <<"1", "1">>, layoutTag |-> <<>>],
     [kind |-> "string", exported |-> FALSE, envTag |-> <<"1">>, layoutTag |-> <<>>]}

StructTypes ==
    {[j \in 1..NumFields |-> IF j = i THEN d ELSE f[j]] :
        i \in 1..NumFields, d \in FieldDecls, f \in [1..NumFields -> Fillers]}

VarTypes ==
    {<<[kind |-> k, exported |-> TRUE, envTag |-> <<>>, layoutTag |-> <<>>]>> : k \in Kinds}

Init ==
    /\ environ = [n \in EnvNames |-> <<>>]
    /\ \/ mode = "struct" /\ ftype \in StructTypes
       \/ mode = "var" /\ ftype \in VarTypes
    /\ \/ vals = [i \in 1..Len(ftype) |-> ZeroValue(ftype[i].kind)]
       \/ vals = [i \in 1..Len(ftype) |-> SampleValue(ftype[i].kind)]
    /\ call = NoArgs @@ [op |-> "init", pre |-> vals]
    /\ ret = NilError

Next ==
    \/ Setenv
    \/ LoadEnvVars
    \/ LoadEnvVarsF
    \/ LoadEnvVarsT
    \/ LoadEnvVarsTF
    \/ LoadEnvVar
    \/ LoadEnvVarT

Spec == Init /\ [][Next]_vars


\* ---------------------------------------------------------- the claims
\* The statements below describe the last call from its arguments, the
\* declared fields and the environment; they do not use the operators above
\* that model setField, validateAndSet and the loop of loadEnvVars.

StructOps == {"LoadEnvVars", "LoadEnvVarsF", "LoadEnvVarsT", "LoadEnvVarsTF"}
VarOps == {"LoadEnvVar", "LoadEnvVarT"}
StructLoaded == mode = "struct" /\ call.op \in StructOps
VarLoaded == mode = "var" /\ call.op \in VarOps
Loaded == StructLoaded \/ VarLoaded

Idx == 1..Len(ftype)

HasSep(t) == \E k \in 1..Len(t) : t[k] = ","
FirstSep(t) == CHOOSE k \in 1..Len(t) : t[k] = "," /\ \A j \in 1..(k - 1) : t[j] # ","
\* the text of a tag before its first comma, and the text after it
NameOf(t) == IF HasSep(t) THEN SubSeq(t, 1, FirstSep(t) - 1) ELSE t
DefaultOf(t) == IF HasSep(t) THEN SubSeq(t, FirstSep(t) + 1, Len(t)) ELSE <<>>

\* the binding of field i in the last call
BoundName(i) ==
    IF mode = "var" THEN call.envVarName
    ELSE IF NameOf(ftype[i].envTag) = <<>> /\ call.force THEN FieldName(i)
    ELSE NameOf(ftype[i].envTag)
BoundDefault(i) == IF mode = "var" THEN call.defaultVal ELSE DefaultOf(ftype[i].envTag)
BoundLayout(i) ==
    IF mode = "var" THEN call.timeLayout
    ELSE IF call.withTime THEN ftype[i].layoutTag ELSE <<>>
Settable(i) == mode = "var" \/ ftype[i].exported
SupportedKind(i) ==
    \/ ftype[i].kind \in {"string", "int", "float64", "bool"}
    \/ ftype[i].kind = "time" /\ call.withTime
\* field i is one the last call resolves
Resolved(i) ==
    /\ Loaded
    /\ Settable(i)
    /\ SupportedKind(i)
    /\ mode = "struct" => BoundName(i) # <<>>

\* the conversion of s for field i
Parse(i, s) ==
    CASE ftype[i].kind = "string" -> [err |-> FALSE, val |-> s]
      [] ftype[i].kind = "int" -> Atoi(s)
      [] ftype[i].kind = "float64" -> ParseFloat(s)
      [] ftype[i].kind = "bool" -> ParseBool(s)
      [] ftype[i].kind = "time" -> TimeParse(BoundLayout(i), s)
      [] OTHER -> [err |-> TRUE, val |-> "opaque"]

EnvVal(i) == Getenv(BoundName(i))
EnvOK(i) == EnvVal(i) # <<>> /\ ~Parse(i, EnvVal(i)).err
DefaultOK(i) == BoundDefault(i) # <<>> /\ ~Parse(i, BoundDefault(i)).err

\* the field errors the last call returned for field i
ErrorName(i) == IF mode = "var" THEN call.envVarName ELSE FieldName(i)
ErrorsFor(i) == {k \in 1..Len(ret.errs) : ret.errs[k].FieldName = ErrorName(i)}
HasFlag(code, flag) == (code \div flag) % 2 = 1

\* C1: a settable field of a supported kind whose environment variable is
\* present, non-empty and parses holds the parsed environment value after the
\* load, whatever its default, and no error is reported for it.
C1_EnvValueWins ==
    \A i \in Idx :
        (Resolved(i) /\ EnvOK(i)) =>
            /\ vals[i] = Parse(i, EnvVal(i)).val
            /\ ErrorsFor(i) = {}

\* a load set a field from the environment although its default is given
\* and does not parse
C1_Witness ==
    \E i \in Idx :
        /\ Resolved(i) /\ EnvOK(i)
        /\ BoundDefault(i) # <<>> /\ ~DefaultOK(i)
        /\ vals[i] # call.pre[i]
        /\ vals[i] = Parse(i, EnvVal(i)).val

C3_MissingReported ==
    \A i \in Idx :
        (Resolved(i) /\ EnvVal(i) = <<>> /\ BoundDefault(i) = <<>>) =>
            /\ \E k \in ErrorsFor(i) :
                   /\ HasFlag(ret.errs[k].ErrorCode, DEFAULT_VALUE_NOT_SPECIFIED)
                   /\ HasFlag(ret.errs[k].ErrorCode, ENV_VAR_NOT_FOUND)
            /\ vals[i] = call.pre[i]

\* C4: a settable field of a supported kind whose environment variable is
\* present but unparsable and whose default is empty or unparsable: the load
\* returns a field error for it with parse-error-on-value set and, with it,
\* default-not-specified (empty default) or default-parse-error.
C4_ParseFailureReported ==
    \A i \in Idx :
        (Resolved(i) /\ EnvVal(i) # <<>> /\ ~EnvOK(i) /\ ~DefaultOK(i)) =>
            \E k \in ErrorsFor(i) :
                /\ HasFlag(ret.errs[k].ErrorCode, ENV_VAR_PARSING_ERROR)
                /\ IF BoundDefault(i) = <<>>
                   THEN HasFlag(ret.errs[k].ErrorCode, DEFAULT_VALUE_NOT_SPECIFIED)
                   ELSE HasFlag(ret.errs[k].ErrorCode, DEFAULT_VALUE_PARSING_ERROR)

\* C5: an unexported struct field is never modified by a LoadEnvVars variant
\* and contributes no error; a struct whose fields are all unexported is
\* unchanged after the load, which returns no error.
C5_UnexportedUntouched ==
    StructLoaded =>
        /\ \A i \in Idx :
               ~ftype[i].exported => (vals[i] = call.pre[i] /\ ErrorsFor(i) = {})
        /\ (\A i \in Idx : ~ftype[i].exported) => (vals = call.pre /\ ret.nil)

\* a struct of unexported fields only was loaded while the variable a field
\* is bound to holds a value that parses for it
C5_Witness ==
    /\ StructLoaded
    /\ \A i \in Idx : ~ftype[i].exported
    /\ \E i \in Idx :
           /\ SupportedKind(i) /\ BoundName(i) # <<>> /\ EnvOK(i)
           /\ Parse(i, EnvVal(i)).val # call.pre[i]
    /\ vals = call.pre

\* the value the resolution of field i yields: the parsed environment value,
\* else the parsed default, else the value before the load
Outcome(i) ==
    IF ~Resolved(i) THEN call.pre[i]
    ELSE IF EnvOK(i) THEN Parse(i, EnvVal(i)).val
    ELSE IF DefaultOK(i) THEN Parse(i, BoundDefault(i)).val
    ELSE call.pre[i]
Fails(i) == Resolved(i) /\ ~EnvOK(i) /\ ~DefaultOK(i)

\* C6: a whole-structure load attempts every field, in declaration order,
\* whatever happened to the fields before it: each field that resolves holds
\* its parsed value however many fields before or after it fail.
C6_NoShortCircuit ==
    StructLoaded => \A i \in Idx : vals[i] = Outcome(i)

\* a field was set to a new value by a struct load in which a field declared
\* before it failed
C6_Witness ==
    /\ StructLoaded
    /\ \E i, j \in Idx :
           /\ i < j
           /\ Fails(i)
           /\ Resolved(j) /\ (EnvOK(j) \/ DefaultOK(j))
           /\ vals[j] # call.pre[j]

\* the names of the failing fields from field i on, in declaration order
RECURSIVE FailingFrom(_)
FailingFrom(i) ==
    IF i > Len(ftype) THEN <<>>
    ELSE IF Fails(i) THEN <<FieldName(i)>> \o FailingFrom(i + 1)
    ELSE FailingFrom(i + 1)

\* C7: a whole-structure load returns no error exactly when no field failed;
\* otherwise the aggregate holds one field error per failing field, in
\* declaration order, each with the field's name.
C7_AggregateMatchesFailures ==
    StructLoaded =>
        /\ ret.nil <=> FailingFrom(1) = <<>>
        /\ [k \in 1..Len(ret.errs) |-> ret.errs[k].FieldName] = FailingFrom(1)

\* C8: after a load every field holds the value it had before, the parsed
\* environment value or the parsed default; it holds the value it had before
\* when neither the environment value nor the default parses.
C8_AtomicConversion ==
    Loaded =>
        \A i \in Idx :
            /\ \/ vals[i] = call.pre[i]
               \/ Resolved(i) /\ EnvOK(i) /\ vals[i] = Parse(i, EnvVal(i)).val
               \/ Resolved(i) /\ DefaultOK(i) /\ vals[i] = Parse(i, BoundDefault(i)).val
            /\ (~EnvOK(i) /\ ~DefaultOK(i)) => vals[i] = call.pre[i]

\* a field that held a non-zero value was loaded with an environment value
\* and a default that are both present and both fail to parse
C8_Witness ==
    \E i \in Idx :
        /\ Resolved(i)
        /\ EnvVal(i) # <<>> /\ ~EnvOK(i)
        /\ BoundDefault(i) # <<>> /\ ~DefaultOK(i)
        /\ call.pre[i] # ZeroValue(ftype[i].kind)
        /\ vals[i] = call.pre[i]

\* C9: in a struct load the tag is split at its first comma only: the text
\* before it is the variable name, all the text after it the default.  With
\* an empty name the field's own name is the variable name under
\* LoadEnvVarsF/TF, the default being kept; otherwise the field is skipped,
\* neither modified nor reported.
C9_TagSplit ==
    StructLoaded =>
        \A i \in Idx :
            LET fd == StructFieldData(i, call.pre[i], call.force, call.withTime)
                tag == ftype[i].envTag
            IN /\ fd.envVarName =
                      (IF NameOf(tag) = <<>> /\ call.force THEN FieldName(i) ELSE NameOf(tag))
               /\ fd.defaultVal = DefaultOf(tag)
               /\ \A k \in 1..Len(NameOf(tag)) : NameOf(tag)[k] # ","
               /\ tag \in {NameOf(tag), NameOf(tag) \o <<",">> \o DefaultOf(tag)}
               /\ (NameOf(tag) = <<>> /\ ~call.force) =>
                      (vals[i] = call.pre[i] /\ ErrorsFor(i) = {})
               /\ (NameOf(tag) = <<>> /\ call.force) => vals[i] = Outcome(i)

\* a string field whose tag holds two commas took its default, which holds
\* the second one, and a field with an empty name and a default was bound to
\* the variable of its own name
C9_Witness ==
    /\ StructLoaded
    /\ \E i \in Idx :
           /\ ftype[i].kind = "string" /\ Resolved(i)
           /\ Len(ftype[i].envTag) = 3 /\ ftype[i].envTag[2] = "," /\ ftype[i].envTag[3] = ","
           /\ EnvVal(i) = <<>>
           /\ vals[i] = <<",">>
           /\ vals[i] # call.pre[i]

\* C10: a field whose kind is none of string, int, float64, bool - a
\* time.Time field included when the entry point has no time support - is
\* left unmodified by every load and no error is returned for it.
C10_UnsupportedIgnored ==
    Loaded =>
        \A i \in Idx :
            ~SupportedKind(i) => (vals[i] = call.pre[i] /\ ErrorsFor(i) = {})

\* a settable time.Time field was loaded through an entry point without time
\* support while its variable is set, and kept its value
C10_Witness ==
    /\ Loaded
    /\ ~call.withTime
    /\ \E i \in Idx :
           /\ ftype[i].kind = "time" /\ Settable(i)
           /\ BoundName(i) # <<>> /\ EnvVal(i) = <<"1">>
           /\ vals[i] = call.pre[i]
    /\ ret.nil

====
